---- MODULE Spec2Model ----
(***************************************************************************)
(* A model of the marker tracker (tracking/tracking_markers.py), of the    *)
(* commit of its result (set_marker_pos, tracking/test_tracking.py) and of *)
(* the pipelined frame loop (process_image/process_image.py).              *)
(*                                                                         *)
(* Position, Marker, MarkerSet, Frames, OpticalFlow and find_closest_blob  *)
(* are imported by the sources but their code is not part of them; they    *)
(* are modelled from the specification (sections 3 and 4.1).               *)
(***************************************************************************)
EXTENDS Integers, Sequences, FiniteSets, TLC

(***************************************************************************)
(* Bounds of the model.                                                    *)
(***************************************************************************)
MaxMarkers == 2      \* markers of a marker set in the tracker specification
MaxBlobs == 2        \* blobs the detector reports for one frame
MaxCoord == 1        \* coordinates are (DELTA \div 2) * k, k \in -1..MaxCoord
CropWidth == 4       \* frame.width of the crop
CropHeight == 4      \* frame.height of the crop
MaxTicks == 1        \* calls of track() in the tracker specification
MaxContenders == 3   \* markers of a marker set in the overlap specification
MaxFrames == 2       \* config['end_index'] - config['start_index'] at most
MaxColumns == 2      \* markers (columns) of an array of marker positions

\* Tracker.DELTA
DELTA == 8

\* Coordinates of the blobs and of the markers' configured positions: some
\* left of the crop, some inside, some beyond its right and lower edges,
\* some farther than DELTA from each other.
XCoords == {(DELTA \div 2) * k : k \in -1..MaxCoord}
YCoords == {(DELTA \div 2) * k : k \in 0..MaxCoord}
Points == {<<x, y>> : x \in XCoords, y \in YCoords}
\* Offsets of an estimator's anchor from the marker (optical flow, Kalman).
Drift == {<<0, 0>>, <<DELTA \div 2, DELTA \div 2>>}

Min(a, b) == IF a < b THEN a ELSE b
Max(a, b) == IF a > b THEN a ELSE b

(***************************************************************************)
(* Position: a coordinate pair with a visibility flag; () is "no estimate".*)
(***************************************************************************)
Empty == <<>>
\* Python's None, where a list of Position is expected: a value that is
\* neither the empty list nor a list of Position.
None == <<Empty>>

Position(position, visibility) ==
    [position |-> position, visibility |-> visibility]

\* Position.__eq__: both Empty, or both with identical coordinates.
PositionEq(a, b) ==
    IF a = Empty \/ b = Empty THEN a = b ELSE a.position = b.position

\* Position.distance_from_marker: the squared Euclidean distance between the
\* position and the marker's stored position (squared: the callers only
\* compare two distances, and the square keeps the model in the integers).
distance_from_marker(p, marker) ==
    (p.position[1] - marker.pos[1]) * (p.position[1] - marker.pos[1])
    + (p.position[2] - marker.pos[2]) * (p.position[2] - marker.pos[2])

SqDist(a, b) == (a[1] - b[1]) * (a[1] - b[1]) + (a[2] - b[2]) * (a[2] - b[2])

\* find_closest_blob: the blob nearest to position among those within
\* delta of it, the earliest of the list on a tie; no blob: not visible.
find_closest_blob(position, bl, delta) ==
    LET near == {k \in DOMAIN bl : SqDist(bl[k], position) <= delta * delta}
    IN IF near = {}
       THEN [position |-> position, visible |-> FALSE]
       ELSE LET best == CHOOSE k \in near :
                          \A m \in near :
                             \/ SqDist(bl[k], position) < SqDist(bl[m], position)
                             \/ /\ SqDist(bl[k], position) = SqDist(bl[m], position)
                                /\ k <= m
            IN [position |-> bl[best], visible |-> TRUE]

\* Position.check_bounds: clamp x to [0, max_x] and y to [0, max_y].
PositionCheckBounds(p, max_x, max_y) ==
    [p EXCEPT !.position = <<Max(0, Min(p.position[1], max_x)),
                             Max(0, Min(p.position[2], max_y))>>]

(***************************************************************************)
(* Tracker                                                                 *)
(***************************************************************************)
\* Tracker._get_blob_near_position, on the diagnostics list of one marker.
_get_blob_near_position(est, position, bl) ==
    LET found == find_closest_blob(position, bl, DELTA)
        withRef == Append(est, Position(position, FALSE))
    IN IF found.visible
       THEN Append(withRef, Position(found.position, TRUE))
       ELSE withRef

\* The loop of Tracker._merge_positions from entry k on: acc is
\* <<final_position[0], final_position[1], visibility_count>>.
RECURSIVE MergeLoop(_, _, _)
MergeLoop(ps, k, acc) ==
    IF k > Len(ps) THEN acc
    ELSE IF ps[k].visibility
         THEN MergeLoop(ps, k + 1, <<acc[1] + ps[k].position[1],
                                     acc[2] + ps[k].position[2], acc[3] + 1>>)
         ELSE MergeLoop(ps, k + 1, acc)

\* _merge_positions with the visibility test of its loop left out.
_merge_positions_all(ps) ==
    IF ps = None \/ ps = <<>> THEN Empty
    ELSE LET s == MergeLoop([k \in 1..Len(ps) |-> Position(ps[k].position, TRUE)],
                            1, <<0, 0, 0>>)
         IN Position(<<s[1] \div s[3], s[2] \div s[3]>>, TRUE)

\* Tracker._merge_positions
_merge_positions(ps) ==
    IF ps = None \/ ps = <<>> THEN Empty
    ELSE LET s == MergeLoop(ps, 1, <<0, 0, 0>>)
         IN IF s[3] = 0 THEN Empty
            ELSE Position(<<s[1] \div s[3], s[2] \div s[3]>>, s[3] > 0)

\* merge_positions that appends nothing for a marker without diagnostics list.
merge_positions_tracked_only(est) ==
    LET tracked == SelectSeq(est, LAMBDA e : e # None)
    IN [k \in 1..Len(tracked) |-> _merge_positions(tracked[k])]

\* Tracker.merge_positions
merge_positions(est) ==
    [k \in 1..Len(est) |-> _merge_positions(est[k])]

\* Tracker._track_marker: the new diagnostics entry of the marker. flow is
\* the optical flow's answer for the marker, prediction the Kalman filter's.
_track_marker(marker, old, flags, flow, prediction, bl) ==
    IF marker.is_static THEN old
    ELSE LET e0 == <<>>
             e1 == IF flags.naive
                   THEN _get_blob_near_position(e0, marker.pos, bl) ELSE e0
             e2 == IF flags.optical_flow /\ flow.st = 1
                   THEN _get_blob_near_position(e1, flow.estimation, bl) ELSE e1
             e3 == IF flags.kalman
                   THEN _get_blob_near_position(e2, prediction, bl) ELSE e2
         IN e3

\* _correct_overlapping with the comparison of the distances reversed.
_correct_overlapping_reversed(ps, markers, i, j) ==
    LET dist_i == distance_from_marker(ps[i], markers[i])
        dist_j == distance_from_marker(ps[j], markers[j])
    IN IF dist_i > dist_j
       THEN [ps EXCEPT ![j].position = markers[j].pos]
       ELSE [ps EXCEPT ![i].position = markers[i].pos]

\* _correct_overlapping with <= for <.
_correct_overlapping_or_equal(ps, markers, i, j) ==
    LET dist_i == distance_from_marker(ps[i], markers[i])
        dist_j == distance_from_marker(ps[j], markers[j])
    IN IF dist_i <= dist_j
       THEN [ps EXCEPT ![j].position = markers[j].pos]
       ELSE [ps EXCEPT ![i].position = markers[i].pos]

\* Tracker._correct_overlapping
_correct_overlapping(ps, markers, i, j) ==
    LET dist_i == distance_from_marker(ps[i], markers[i])
        dist_j == distance_from_marker(ps[j], markers[j])
    IN IF dist_i < dist_j
       THEN [ps EXCEPT ![j].position = markers[j].pos]
       ELSE [ps EXCEPT ![i].position = markers[i].pos]

\* The body of the double loop of Tracker.check_tracking for the pair (i, j).
CheckPair(ps, markers, i, j) ==
    IF PositionEq(ps[i], ps[j]) /\ ps[i] # Empty
    THEN _correct_overlapping(ps, markers, i, j)
    ELSE ps

\* The pairs the double loop visits, in its order: (1,2), (1,3), .., (2,3), ..
RECURSIVE PairsFrom(_, _, _)
PairsFrom(n, i, j) ==
    IF i >= n THEN <<>>
    ELSE IF j > n THEN PairsFrom(n, i + 1, i + 2)
    ELSE <<(<<i, j>>)>> \o PairsFrom(n, i, j + 1)

Pairs(n) == PairsFrom(n, 1, 2)

\* Tracker.check_tracking: the loop from its c-th comparison on.
RECURSIVE CheckTrackingFrom(_, _, _)
CheckTrackingFrom(ps, markers, c) ==
    IF c > Len(Pairs(Len(ps))) THEN ps
    ELSE CheckTrackingFrom(
             CheckPair(ps, markers, Pairs(Len(ps))[c][1], Pairs(Len(ps))[c][2]),
             markers, c + 1)

check_tracking(ps, markers) == CheckTrackingFrom(ps, markers, 1)

\* check_bounds with the frame's width and height as the largest coordinates.
check_bounds_to_size(ps, fr) ==
    [k \in 1..Len(ps) |->
        IF ps[k] # Empty THEN PositionCheckBounds(ps[k], fr.width, fr.height)
        ELSE ps[k]]

\* Tracker.check_bounds
check_bounds(ps, fr) ==
    LET max_x == fr.width - 1
        max_y == fr.height - 1
    IN [k \in 1..Len(ps) |->
           IF ps[k] # Empty THEN PositionCheckBounds(ps[k], max_x, max_y)
           ELSE ps[k]]

\* The Kalman loop correcting only the markers that moved.
KalmanCorrections_moved_only(ps, markers) ==
    [k \in 1..Len(markers) |->
        IF ps[k] # Empty /\ ps[k].position # markers[k].pos
        THEN <<ps[k].position>> ELSE <<>>]

\* The Kalman loop of Tracker.track: the measurements handed to each
\* marker's correct_from_kalman.
KalmanCorrections(ps, markers) ==
    [k \in 1..Len(markers) |->
        IF ps[k] # Empty THEN <<ps[k].position>> ELSE <<>>]

\* set_marker_pos storing the zero placeholder for an Empty position.
set_marker_pos_zero(markers, ps) ==
    IF Len(markers) # Len(ps)
    THEN [raised |-> TRUE, markers |-> markers]
    ELSE [raised |-> FALSE,
          markers |-> [k \in 1..Len(markers) |->
                         IF ps[k] # Empty
                         THEN [markers[k] EXCEPT !.pos = ps[k].position]
                         ELSE [markers[k] EXCEPT !.pos = <<0, 0>>]]]

\* set_marker_pos without its assertion, writing the entries both lists have.
set_marker_pos_truncating(markers, ps) ==
    [raised |-> FALSE,
     markers |-> [k \in 1..Len(markers) |->
                    IF k <= Len(ps) /\ ps[k] # Empty
                    THEN [markers[k] EXCEPT !.pos = ps[k].position]
                    ELSE markers[k]]]

\* set_marker_pos: the assertion on the lengths, then the loop.
set_marker_pos(markers, ps) ==
    IF Len(markers) # Len(ps)
    THEN [raised |-> TRUE, markers |-> markers]
    ELSE [raised |-> FALSE,
          markers |-> [k \in 1..Len(markers) |->
                         IF ps[k] # Empty
                         THEN [markers[k] EXCEPT !.pos = ps[k].position]
                         ELSE markers[k]]]

(***************************************************************************)
(* State of the tracker and of the loop that drives it.                    *)
(***************************************************************************)
VARIABLES
    marker_set,           \* MarkerSet.markers: <<[pos, is_static]>>
    options,              \* Tracker.naive, .optical_flow, .kalman
    frame,                \* the crop's frame: [width, height]
    blobs,                \* Tracker.blobs
    positions,            \* Tracker.positions
    estimated_positions,  \* Tracker.estimated_positions
    corrected,            \* per marker, the measurements passed to
                          \* Marker.correct_from_kalman by the current track()
    compared,             \* pairs check_tracking has compared in this track()
    pc,                   \* position in _process_function / track()
    tick,                 \* completed calls of track()
    index,                \* ProcessImage.index
    end_index,            \* config['end_index']
    frames,               \* ProcessImage.frames: the image in the buffer
    image,                \* the (color, depth) _load_img returned
    updated,              \* what _update_img returned
    dispatched,           \* a send_process has no receive_process yet
    events,               \* the handler and buffer events of this iteration
    sent,                 \* the buffer versions send_process was issued over
    ended,                \* calls of end_process
    step,                 \* position in ProcessImage.process
    marker_pos_in_pixel,  \* get_markers_pos_in_meter: its first argument
    method,               \* get_markers_pos_in_meter: its second argument
    method_returns,       \* what method() returns when it is called
    library,              \* how the camera library answers a conversion
    outcome               \* what get_markers_pos_in_meter raised or returned

loopVars == <<index, end_index, frames, image, updated, dispatched, events,
              sent, ended, step>>

cameraVars == <<marker_pos_in_pixel, method, method_returns, library, outcome>>

vars == <<marker_set, options, frame, blobs, positions, estimated_positions,
          corrected, compared, pc, tick, loopVars, cameraVars>>

\* No image: load_img returned None for the color or for the depth file.
NoImage == [index |-> -1, blobs |-> <<>>]

\* The frame loop is not running.
NoLoop ==
    /\ index = 0
    /\ end_index = 0
    /\ frames = [index |-> 0, blobs |-> <<>>, version |-> 0]
    /\ image = NoImage
    /\ updated = FALSE
    /\ dispatched = FALSE
    /\ events = <<>>
    /\ sent = <<>>
    /\ ended = 0
    /\ step = "none"

\* get_markers_pos_in_meter has not returned or raised yet.
Pending ==
    [raised |-> "pending", converted |-> <<>>, markers_in_meters |-> <<>>,
     markers_names |-> "None", occlusions |-> "None", reliability |-> 0]

\* No method: the default of the argument 'method'.
NoMethod == [func |-> "None", bound |-> FALSE]

\* get_markers_pos_in_meter is not being called.
NoCall ==
    /\ marker_pos_in_pixel = None
    /\ method = NoMethod
    /\ method_returns = [marker_pos |-> <<>>, markers_names |-> "None",
                         occlusions |-> "None", reliability |-> 0]
    /\ library = "none"
    /\ outcome = Pending

Markers == [pos : Points, is_static : BOOLEAN]
Options == [naive : BOOLEAN, optical_flow : BOOLEAN, kalman : BOOLEAN]

\* The blob lists get_blobs returns: up to n distinct points, in any order
\* (the order is the detector's).
RECURSIVE BlobListsUpTo(_)
BlobListsUpTo(n) ==
    IF n = 0 THEN {<<>>}
    ELSE LET shorter == BlobListsUpTo(n - 1)
         IN shorter \cup
            UNION {{Append(s, p) : p \in {q \in Points :
                                            \A k \in 1..(n - 1) : s[k] # q}} :
                   s \in {t \in shorter : Len(t) = n - 1}}

BlobLists == BlobListsUpTo(MaxBlobs)

Shift(p, d) == <<p[1] + d[1], p[2] + d[2]>>

\* What OpticalFlow answers for a marker: (estimation, st), st = 1 when the
\* point was found. Not consulted: one answer.
FlowAnswers(marker, flags) ==
    IF marker.is_static \/ ~flags.optical_flow
    THEN {[st |-> 0, estimation |-> marker.pos]}
    ELSE {[st |-> 0, estimation |-> marker.pos]}
         \cup {[st |-> 1, estimation |-> Shift(marker.pos, d)] : d \in Drift}

\* What Marker.predict_from_kalman returns for a marker.
Predictions(marker, flags) ==
    IF marker.is_static \/ ~flags.kalman
    THEN {marker.pos}
    ELSE {Shift(marker.pos, d) : d \in Drift}

\* The estimators' answers for the markers 1..k of a tick.
RECURSIVE EstimatorAnswers(_, _, _)
EstimatorAnswers(markers, flags, k) ==
    IF k = 0 THEN {<<>>}
    ELSE {Append(s, [flow |-> f, prediction |-> p]) :
             s \in EstimatorAnswers(markers, flags, k - 1),
             f \in FlowAnswers(markers[k], flags),
             p \in Predictions(markers[k], flags)}

\* Tracker.__init__
Init ==
    /\ \E n \in 1..MaxMarkers : marker_set \in [1..n -> Markers]
    /\ options \in Options
    /\ frame = [width |-> CropWidth, height |-> CropHeight]
    /\ blobs = <<>>
    /\ positions = <<>>
    /\ estimated_positions = [k \in 1..Len(marker_set) |-> None]
    /\ corrected = [k \in 1..Len(marker_set) |-> <<>>]
    /\ compared = 0
    /\ pc = "idle"
    /\ tick = 0
    /\ NoLoop
    /\ NoCall

\* Tracker.track, up to merge_positions().
TrackMarkers ==
    /\ pc = "idle"
    /\ tick < MaxTicks
    /\ \E bl \in BlobLists :
       \E answers \in EstimatorAnswers(marker_set, options, Len(marker_set)) :
          /\ blobs' = bl
          /\ estimated_positions' =
                [k \in 1..Len(marker_set) |->
                    _track_marker(marker_set[k], estimated_positions[k], options,
                                  answers[k].flow, answers[k].prediction, bl)]
    /\ positions' = merge_positions(estimated_positions')
    /\ corrected' = [k \in 1..Len(marker_set) |-> <<>>]
    /\ compared' = 0
    /\ pc' = "check_tracking"
    /\ UNCHANGED <<marker_set, options, frame, tick, loopVars,
                   cameraVars>>

\* Tracker.check_tracking: one pass of the body of the double loop.
CheckTracking ==
    /\ pc = "check_tracking"
    /\ compared < Len(Pairs(Len(positions)))
    /\ LET pair == Pairs(Len(positions))[compared + 1]
       IN positions' = CheckPair(positions, marker_set, pair[1], pair[2])
    /\ compared' = compared + 1
    /\ UNCHANGED <<marker_set, options, frame, blobs, estimated_positions,
                   corrected, pc, tick, loopVars,
                   cameraVars>>

\* Tracker.check_tracking: the double loop is over.
CheckTrackingDone ==
    /\ pc = "check_tracking"
    /\ compared = Len(Pairs(Len(positions)))
    /\ pc' = "check_bounds"
    /\ UNCHANGED <<marker_set, options, frame, blobs, positions,
                   estimated_positions, corrected, compared, tick, loopVars,
                   cameraVars>>

\* Tracker.track: self.check_bounds(frame)
CheckBounds ==
    /\ pc = "check_bounds"
    /\ positions' = check_bounds(positions, frame)
    /\ pc' = "correct"
    /\ UNCHANGED <<marker_set, options, frame, blobs, estimated_positions,
                   corrected, compared, tick, loopVars,
                   cameraVars>>

\* Tracker.track: the Kalman correction loop, and the return.
KalmanCorrect ==
    /\ pc = "correct"
    /\ corrected' = KalmanCorrections(positions, marker_set)
    /\ pc' = "returned"
    /\ UNCHANGED <<marker_set, options, frame, blobs, positions,
                   estimated_positions, compared, tick, loopVars,
                   cameraVars>>

\* _process_function: set_marker_pos(crop.marker_set, positions)
SetMarkerPos ==
    /\ pc = "returned"
    /\ LET r == set_marker_pos(marker_set, positions)
       IN /\ marker_set' = r.markers
          /\ pc' = IF r.raised THEN "AssertionError" ELSE "idle"
    /\ tick' = tick + 1
    /\ UNCHANGED <<options, frame, blobs, positions, estimated_positions,
                   corrected, compared, loopVars,
                   cameraVars>>

Next ==
    \/ TrackMarkers
    \/ CheckTracking
    \/ CheckTrackingDone
    \/ CheckBounds
    \/ KalmanCorrect
    \/ SetMarkerPos

Spec == Init /\ [][Next]_vars

(***************************************************************************)
(* Overlap resolution on its own: track() has just run merge_positions()   *)
(* for a set of up to MaxContenders tracked markers, with any merged       *)
(* positions (optical flow only: each marker's flow was lost, or was found *)
(* on a blob), and goes on from there.                                     *)
(***************************************************************************)
\* The lists get_blobs can return for the set S of detected points: each
\* point once, in any order (the order is the detector's).
RECURSIVE BlobOrders(_)
BlobOrders(S) ==
    IF S = {} THEN {<<>>}
    ELSE UNION {{<<p>> \o t : t \in BlobOrders(S \ {p})} : p \in S}

\* The diagnostics list of a marker whose flow was found at point p, on a blob.
FoundAt(p) == <<Position(p, FALSE), Position(p, TRUE)>>

InitOverlap ==
    /\ \E n \in 2..MaxContenders :
         /\ marker_set \in [1..n -> [pos : Points, is_static : {FALSE}]]
         /\ estimated_positions \in [1..n -> {<<>>} \cup {FoundAt(p) : p \in Points}]
    /\ options = [naive |-> FALSE, optical_flow |-> TRUE, kalman |-> FALSE]
    /\ frame = [width |-> CropWidth, height |-> CropHeight]
    /\ blobs \in BlobOrders({estimated_positions[k][2].position :
                               k \in {m \in 1..Len(estimated_positions) :
                                         estimated_positions[m] # <<>>}})
    /\ positions = merge_positions(estimated_positions)
    /\ corrected = [k \in 1..Len(marker_set) |-> <<>>]
    /\ compared = 0
    /\ pc = "check_tracking"
    /\ tick = 0
    /\ NoLoop
    /\ NoCall

NextOverlap ==
    \/ CheckTracking
    \/ CheckTrackingDone
    \/ CheckBounds
    \/ KalmanCorrect
    \/ SetMarkerPos

SpecOverlap == InitOverlap /\ [][NextOverlap]_vars

(***************************************************************************)
(* The commit on its own: _process_function has received the positions of  *)
(* crop.track_markers() and calls set_marker_pos on crop.marker_set. The   *)
(* Crop is not part of the sources: its tracker may have been configured   *)
(* with another number of markers than crop.marker_set holds, so the list  *)
(* of positions has any length up to MaxMarkers.                           *)
(***************************************************************************)
\* The lists of positions a track() can return for n markers: each entry
\* is Empty, or visible and, after check_bounds, at any point of the crop
\* (a merged position is a floor average of blobs, which lie anywhere).
ReturnedPositions(n, fr) ==
    [1..n -> {Empty} \cup {Position(<<x, y>>, TRUE) :
                              x \in 0..(fr.width - 1), y \in 0..(fr.height - 1)}]

InitCommit ==
    /\ \E m \in 0..MaxMarkers : marker_set \in [1..m -> Markers]
    /\ options = [naive |-> TRUE, optical_flow |-> FALSE, kalman |-> FALSE]
    /\ frame = [width |-> CropWidth, height |-> CropHeight]
    /\ blobs = <<>>
    /\ \E n \in 0..MaxMarkers : positions \in ReturnedPositions(n, frame)
    /\ estimated_positions = [k \in 1..Len(positions) |-> <<>>]
    /\ corrected = [k \in 1..Len(positions) |->
                      IF positions[k] # Empty THEN <<positions[k].position>>
                      ELSE <<>>]
    /\ compared = 0
    /\ pc = "returned"
    /\ tick = 0
    /\ NoLoop
    /\ NoCall

NextCommit == SetMarkerPos

SpecCommit == InitCommit /\ [][NextCommit]_vars

(***************************************************************************)
(* ProcessImage.process: the pipelined frame loop over one crop of one     *)
(* marker, with the handler that tracks within send_process                *)
(* (ImageProcessingHandler).                                               *)
(***************************************************************************)
\* Tracker.track as a whole: what it leaves in the tracker and returns.
track(markers, est, flags, answers, bl, fr) ==
    LET estimated == [k \in 1..Len(markers) |->
                        _track_marker(markers[k], est[k], flags,
                                      answers[k].flow, answers[k].prediction, bl)]
        bounded == check_bounds(check_tracking(merge_positions(estimated),
                                               markers), fr)
    IN [positions |-> bounded,
        estimated_positions |-> estimated,
        corrected |-> KalmanCorrections(bounded, markers)]

\* _process_while_loading publishing the loaded image before receive_process.
_process_while_loading_early_update ==
    <<"send_process", "_load_img", "_update_img", "receive_process">>

\* The calls of ProcessImage._process_while_loading, in their order.
_process_while_loading ==
    <<"send_process", "_load_img", "receive_process", "_update_img">>

\* The position after the call s of _process_while_loading.
StepAfter(s) ==
    LET k == CHOOSE m \in 1..Len(_process_while_loading) :
                _process_while_loading[m] = s
    IN IF k = Len(_process_while_loading) THEN "return"
       ELSE _process_while_loading[k + 1]

\* The images load_img can return for a frame index.
Images(i) == {[index |-> i, blobs |-> bl] : bl \in BlobListsUpTo(MaxBlobs - 1)}

trackerVars == <<marker_set, options, frame, blobs, positions,
                 estimated_positions, corrected, compared, pc, tick>>

\* ProcessImage.__init__
InitLoop ==
    /\ marker_set \in [1..1 -> Markers]
    /\ options \in Options
    /\ frame = [width |-> CropWidth, height |-> CropHeight]
    /\ blobs = <<>>
    /\ positions = <<>>
    /\ estimated_positions = [k \in 1..Len(marker_set) |-> None]
    /\ corrected = [k \in 1..Len(marker_set) |-> <<>>]
    /\ compared = 0
    /\ pc = "idle"
    /\ tick = 0
    /\ index = 0
    /\ end_index \in 0..MaxFrames
    /\ \E img \in Images(0) :
         frames = [index |-> img.index, blobs |-> img.blobs, version |-> 0]
    /\ image = NoImage
    /\ updated = FALSE
    /\ dispatched = FALSE
    /\ events = <<>>
    /\ sent = <<>>
    /\ ended = 0
    /\ step = "while"
    /\ NoCall

\* process: the test of the while loop and self.index += 1
LoopTest ==
    /\ step = "while"
    /\ IF index # end_index
       THEN /\ index' = index + 1
            /\ step' = _process_while_loading[1]
       ELSE /\ index' = index
            /\ step' = "end_process"
    /\ events' = <<>>
    /\ UNCHANGED <<trackerVars, end_index, frames, image, updated, dispatched,
                   sent, ended,
                   cameraVars>>

\* print_estimated_positions: print_position iterates every marker's
\* diagnostics list, and raises a TypeError on one that is None.
print_estimated_positions(est) ==
    IF \E k \in 1..Len(est) : est[k] = None THEN "TypeError" ELSE "none"

\* ImageProcessingHandler.send_process: _process_function tracks the crop's
\* markers on the image in the buffer, commits the positions and draws the
\* result; an error of the drawing leaves send_process, and process() with
\* it.
SendProcess ==
    /\ step = "send_process"
    /\ \E answers \in EstimatorAnswers(marker_set, options, Len(marker_set)) :
         LET r == track(marker_set, estimated_positions, options, answers,
                        frames.blobs, frame)
         IN /\ blobs' = frames.blobs
            /\ positions' = r.positions
            /\ estimated_positions' = r.estimated_positions
            /\ corrected' = r.corrected
            /\ marker_set' = set_marker_pos(marker_set, r.positions).markers
    /\ tick' = tick + 1
    /\ dispatched' = TRUE
    /\ events' = Append(events, "send_process")
    /\ sent' = Append(sent, frames.version)
    /\ step' = IF print_estimated_positions(estimated_positions') = "none"
               THEN StepAfter("send_process")
               ELSE print_estimated_positions(estimated_positions')
    /\ UNCHANGED <<options, frame, compared, pc, index, end_index, frames,
                   image, updated, ended, cameraVars>>

\* _load_img: the image files of self.index, or None.
LoadImg ==
    /\ step = "_load_img"
    /\ image' \in Images(index) \cup {NoImage}
    /\ events' = Append(events, "_load_img")
    /\ step' = StepAfter("_load_img")
    /\ UNCHANGED <<trackerVars, index, end_index, frames, updated, dispatched,
                   sent, ended,
                   cameraVars>>

\* ImageProcessingHandler.receive_process
ReceiveProcess ==
    /\ step = "receive_process"
    /\ dispatched' = FALSE
    /\ events' = Append(events, "receive_process")
    /\ step' = StepAfter("receive_process")
    /\ UNCHANGED <<trackerVars, index, end_index, frames, image, updated, sent,
                   ended,
                   cameraVars>>

\* _update_img: frames.set_images unless an image is None.
UpdateImg ==
    /\ step = "_update_img"
    /\ IF image = NoImage
       THEN /\ updated' = FALSE
            /\ UNCHANGED <<frames, events>>
       ELSE /\ updated' = TRUE
            /\ frames' = [index |-> image.index, blobs |-> image.blobs,
                          version |-> frames.version + 1]
            /\ events' = Append(events, "set_images")
    /\ step' = StepAfter("_update_img")
    /\ UNCHANGED <<trackerVars, index, end_index, image, dispatched, sent,
                   ended,
                   cameraVars>>

\* process: the rest of the loop body, after _process_while_loading returned.
LoopBodyEnd ==
    /\ step = "return"
    /\ IF ~updated
       THEN step' = "while"
       ELSE \E quit \in BOOLEAN :
               step' = IF quit THEN "end_process" ELSE "while"
    /\ UNCHANGED <<trackerVars, index, end_index, frames, image, updated,
                   dispatched, events, sent, ended,
                   cameraVars>>

\* process: end_process() and the averages over nb_img frames.
EndProcess ==
    /\ step = "end_process"
    /\ ended' = ended + 1
    /\ step' = IF index = 0 THEN "ZeroDivisionError" ELSE "done"
    /\ UNCHANGED <<trackerVars, index, end_index, frames, image, updated,
                   dispatched, events, sent,
                   cameraVars>>

NextLoop ==
    \/ LoopTest
    \/ SendProcess
    \/ LoadImg
    \/ ReceiveProcess
    \/ UpdateImg
    \/ LoopBodyEnd
    \/ EndProcess

SpecLoop == InitLoop /\ [][NextLoop]_vars

(***************************************************************************)
(* CameraConverter.get_markers_pos_in_meter. An array of marker positions  *)
(* is the sequence of its columns <<x, y, depth>>. RgbdImages and the      *)
(* camera library (pyrealsense2) are imported, not part of the sources: a  *)
(* call of method() returns any tuple, and the library answers a           *)
(* conversion in one of the ways of LibraryAnswers.                        *)
(***************************************************************************)
\* The methods of RgbdImages that the docstring names as the valid ones.
RgbdImagesMethods == {"get_global_markers_pos", "get_merged_global_markers_pos"}

\* The callables handed in as 'method': a function of the class RgbdImages
\* itself, the same bound to an instance, or another callable without
\* arguments.
Methods ==
    [func : RgbdImagesMethods, bound : BOOLEAN]
    \cup {[func |-> "other", bound |-> FALSE]}

\* f == method, for f a function of the class RgbdImages: Python compares a
\* function equal to itself only, not to the method bound to an instance.
FunctionEq(f, m) == m.func = f /\ ~m.bound

\* method(): a function of the class called without its instance raises.
CallRaises(m) == m.func \in RgbdImagesMethods /\ ~m.bound

Columns == {<<0, 0, 1>>, <<DELTA \div 2, DELTA \div 2, 2>>}

RECURSIVE ArraysUpTo(_)
ArraysUpTo(n) ==
    IF n = 0 THEN {<<>>}
    ELSE LET shorter == ArraysUpTo(n - 1)
         IN shorter \cup {Append(a, c) : a \in {b \in shorter : Len(b) = n - 1},
                                         c \in Columns}

Arrays == ArraysUpTo(MaxColumns)

\* What a call of method() can return.
MethodReturns ==
    [marker_pos : Arrays, markers_names : {"names"},
     occlusions : {"occlusions"}, reliability : {0, 1}]

\* The camera library's conversion of a column, as the code calls it
\* (intrinsics and one list of three numbers): the call is rejected, or it
\* returns a point of three coordinates, or one of two.
LibraryAnswers == {"TypeError", "three", "two"}

\* CameraIntrinsics.get_intrinsics, of a camera whose intrinsics were set.
get_intrinsics == [fx |-> 2, fy |-> 2, ppx |-> 2, ppy |-> 2]

\* The pinhole deprojection of a pixel and its depth.
Deproject(intrinsics, c) ==
    <<(c[3] * (c[1] - intrinsics.ppx)) \div intrinsics.fx,
      (c[3] * (c[2] - intrinsics.ppy)) \div intrinsics.fy,
      c[3]>>

Raised(e) == [Pending EXCEPT !.raised = e]

\* CameraConverter._compute_markers: zeros_like, then for each column the
\* rows :2 are assigned the library's answer; an answer of three
\* coordinates does not fit two rows.
_compute_markers(intrinsics, marker_pos, answer) ==
    IF Len(marker_pos) = 0 THEN [raised |-> "none", markers |-> <<>>]
    ELSE IF answer = "TypeError" THEN [raised |-> "TypeError", markers |-> <<>>]
    ELSE IF answer = "three"
    THEN [raised |-> "ValueError: could not broadcast", markers |-> <<>>]
    ELSE [raised |-> "none",
          markers |-> [m \in 1..Len(marker_pos) |->
                          <<Deproject(intrinsics, marker_pos[m])[1],
                            Deproject(intrinsics, marker_pos[m])[2], 0>>]]

\* CameraConverter.get_markers_pos_in_meter
get_markers_pos_in_meter(pos, m, returns, answer) ==
    IF pos = None /\ m = NoMethod THEN Raised("ValueError")
    ELSE IF m # NoMethod /\ (\/ FunctionEq("get_global_markers_pos", m)
                             \/ FunctionEq("get_merged_global_markers_pos", m))
    THEN Raised("ValueError")
    ELSE IF m # NoMethod /\ CallRaises(m) THEN Raised("TypeError")
    ELSE LET given == IF pos = None THEN returns.marker_pos ELSE pos
             c == _compute_markers(get_intrinsics, given, answer)
         IN IF c.raised # "none" THEN Raised(c.raised)
            ELSE [raised |-> "none",
                  converted |-> given,
                  markers_in_meters |-> c.markers,
                  markers_names |-> IF m = NoMethod THEN "None"
                                    ELSE returns.markers_names,
                  occlusions |-> IF m = NoMethod THEN "None"
                                 ELSE returns.occlusions,
                  reliability |-> IF m = NoMethod THEN 0
                                  ELSE returns.reliability]

InitCamera ==
    /\ marker_set = <<>>
    /\ options = [naive |-> FALSE, optical_flow |-> FALSE, kalman |-> FALSE]
    /\ frame = [width |-> CropWidth, height |-> CropHeight]
    /\ blobs = <<>>
    /\ positions = <<>>
    /\ estimated_positions = <<>>
    /\ corrected = <<>>
    /\ compared = 0
    /\ pc = "idle"
    /\ tick = 0
    /\ NoLoop
    /\ marker_pos_in_pixel \in {None} \cup Arrays
    /\ method \in {NoMethod} \cup Methods
    /\ method_returns \in MethodReturns
    /\ library \in LibraryAnswers
    /\ outcome = Pending

\* A call of get_markers_pos_in_meter(marker_pos_in_pixel, method).
GetMarkersPosInMeter ==
    /\ outcome = Pending
    /\ library # "none"
    /\ outcome' = get_markers_pos_in_meter(marker_pos_in_pixel, method,
                                           method_returns, library)
    /\ UNCHANGED <<trackerVars, loopVars, marker_pos_in_pixel, method,
                   method_returns, library>>

NextCamera == GetMarkersPosInMeter

SpecCamera == InitCamera /\ [][NextCamera]_vars

(***************************************************************************)
(* Properties of the tracker, checked under Spec.                          *)
(***************************************************************************)
MarkerIds == 1..Len(marker_set)

\* The entries of a diagnostics list that are visible candidates.
VisibleOf(est) ==
    IF est = None THEN {} ELSE {k \in 1..Len(est) : est[k].visibility}

RECURSIVE SumCoord(_, _, _)
SumCoord(est, S, c) ==
    IF S = {} THEN 0
    ELSE LET k == CHOOSE m \in S : TRUE
         IN est[k].position[c] + SumCoord(est, S \ {k}, c)

\* q is the floor of sum / n.
IsFloorOf(q, sum, n) == n * q <= sum /\ sum < n * (q + 1)

\* The position merge_positions() gave marker k in the current track().
Merged(k) == _merge_positions(estimated_positions[k])

InCrop(p) ==
    /\ 0 <= p[1] /\ p[1] <= frame.width - 1
    /\ 0 <= p[2] /\ p[2] <= frame.height - 1

AfterMerge == pc = "check_tracking" /\ compared = 0

\* C1: the entry track() returns in positions for a static marker equals the
\* marker's stored position (it is not Empty), and its entry in estimated is
\* an empty diagnostics list.
C1_StaticMarkerKeepsPosition ==
    pc = "returned" =>
        \A k \in MarkerIds :
            marker_set[k].is_static =>
                /\ positions[k] # Empty
                /\ positions[k].position = marker_set[k].pos
                /\ estimated_positions[k] = <<>>

\* C5: right after merge_positions(), the position of a non-static marker
\* is Empty iff its candidate list has no visible candidate; otherwise it is
\* visible and its coordinates are the component-wise floor average of
\* exactly the visible candidates.
C5_MergeIsFloorAverageOfVisible ==
    AfterMerge =>
        \A k \in MarkerIds :
            ~marker_set[k].is_static =>
                LET est == estimated_positions[k]
                    vis == VisibleOf(est)
                    n == Cardinality(vis)
                IN /\ est # None
                   /\ (positions[k] = Empty) <=> (vis = {})
                   /\ vis # {} =>
                        /\ positions[k].visibility = TRUE
                        /\ IsFloorOf(positions[k].position[1],
                                     SumCoord(est, vis, 1), n)
                        /\ IsFloorOf(positions[k].position[2],
                                     SumCoord(est, vis, 2), n)
                   /\ \A v \in vis :
                        n = 1 => positions[k].position = est[v].position

\* C5 witness: a marker with three visible candidates at two blobs whose
\* negative x sum does not divide evenly, and an invisible reference entry
\* away from the result.
C5_Witness ==
    /\ AfterMerge
    /\ \E k \in MarkerIds :
          LET est == estimated_positions[k]
              vis == VisibleOf(est)
          IN /\ Cardinality(vis) = 3
             /\ SumCoord(est, vis, 1) < 0
             /\ SumCoord(est, vis, 1) % 3 # 0
             /\ \E a \in vis, b \in vis : est[a].position # est[b].position
             /\ \E r \in 1..Len(est) :
                   ~est[r].visibility /\ est[r].position # positions[k].position

\* C6: check_bounds() clamps x and y of every non-empty position
\* independently into the crop, leaves a position in the crop unchanged and
\* turns none into Empty; every non-empty position track() returns is in
\* the crop.
C6_PositionsClampedIntoCrop ==
    [][/\ pc = "check_bounds" =>
            \A k \in 1..Len(positions) :
                IF positions[k] = Empty THEN positions'[k] = Empty
                ELSE /\ positions'[k] # Empty
                     /\ positions'[k].position[1] =
                            (IF positions[k].position[1] < 0 THEN 0
                             ELSE IF positions[k].position[1] > frame.width - 1
                                  THEN frame.width - 1
                                  ELSE positions[k].position[1])
                     /\ positions'[k].position[2] =
                            (IF positions[k].position[2] < 0 THEN 0
                             ELSE IF positions[k].position[2] > frame.height - 1
                                  THEN frame.height - 1
                                  ELSE positions[k].position[2])
       /\ pc' = "returned" =>
            \A k \in 1..Len(positions') :
                positions'[k] # Empty => InCrop(positions'[k].position)]_vars

\* C6 witness: track() has returned; a marker stored left of and below the
\* crop lost an overlap, was reverted to that position and then clamped to
\* the crop's corner.
C6_Witness ==
    /\ pc = "returned"
    /\ \E k \in MarkerIds, j \in MarkerIds :
          /\ k # j
          /\ Merged(k) # Empty /\ Merged(j) # Empty
          /\ Merged(k).position = Merged(j).position
          /\ Merged(k).position # marker_set[k].pos
          /\ marker_set[k].pos[1] < 0
          /\ marker_set[k].pos[2] > frame.height - 1
          /\ positions[k].position = <<0, frame.height - 1>>

\* C7: from the merge of the first track() on, and so after every completed
\* track(), positions and estimated_positions are as long as the marker
\* set; when track() returns, entry k of both belongs to marker k:
\* the naive estimator's reference entry is marker k's stored position, and
\* positions[k] is non-empty exactly when marker k has a visible candidate.
C7_OutputsAlignedWithMarkerSet ==
    /\ (pc # "idle" \/ tick > 0) =>
          /\ Len(positions) = Len(marker_set)
          /\ Len(estimated_positions) = Len(marker_set)
    /\ pc = "returned" =>
          \A k \in MarkerIds :
              /\ (positions[k] # Empty) <=> (VisibleOf(estimated_positions[k]) # {})
              /\ (~marker_set[k].is_static /\ options.naive) =>
                    estimated_positions[k][1] = Position(marker_set[k].pos, FALSE)

\* C7 witness: track() has returned for a set that mixes a static marker
\* with a tracked one.
C7_Witness ==
    /\ pc = "returned"
    /\ \E k \in MarkerIds, j \in MarkerIds :
          /\ marker_set[k].is_static /\ ~marker_set[j].is_static
          /\ k < j
          /\ positions[j] # Empty

\* C8: within a track() call Marker.correct_from_kalman is not invoked
\* before the clamp; when track() returns it has been invoked exactly once,
\* with the final position, for every marker whose final position is
\* non-empty, and not at all for a marker whose final position is Empty.
C8_KalmanCorrectedOnceWithFinalPosition ==
    /\ pc \in {"check_tracking", "check_bounds", "correct"} =>
          \A k \in MarkerIds : corrected[k] = <<>>
    /\ pc = "returned" =>
          \A k \in MarkerIds :
              IF positions[k] = Empty THEN corrected[k] = <<>>
              ELSE /\ corrected[k] = <<positions[k].position>>
                   /\ InCrop(corrected[k][1])

\* C8 witness: track() has returned with the Kalman estimator disabled; one
\* marker was corrected with a clamped measurement, another one was skipped.
C8_Witness ==
    /\ pc = "returned"
    /\ ~options.kalman
    /\ \E k \in MarkerIds, j \in MarkerIds :
          /\ Len(corrected[k]) = 1
          /\ Merged(k).position # corrected[k][1]
          /\ ~marker_set[j].is_static
          /\ corrected[j] = <<>>

\* C9: set_marker_pos leaves the stored position of a marker whose result
\* is Empty as it was, sets the stored position of every other marker to
\* its result, and raises nothing.
C9_EmptyResultKeepsStoredPosition ==
    [][pc = "returned" =>
          /\ pc' = "idle"
          /\ Len(marker_set') = Len(marker_set)
          /\ \A k \in MarkerIds :
                /\ marker_set'[k].is_static = marker_set[k].is_static
                /\ marker_set'[k].pos =
                      (IF positions[k] = Empty THEN marker_set[k].pos
                       ELSE positions[k].position)]_vars

\* C9 witness: naive-only tracking with no blob; the result of the tracked
\* marker is Empty and the tick has been committed.
C9_Witness ==
    /\ pc = "idle" /\ tick = 1
    /\ options = [naive |-> TRUE, optical_flow |-> FALSE, kalman |-> FALSE]
    /\ blobs = <<>>
    /\ \E k \in MarkerIds : ~marker_set[k].is_static /\ positions[k] = Empty

(***************************************************************************)
(* Properties of the overlap resolution, checked under SpecOverlap.        *)
(***************************************************************************)
\* The displacement of marker k's merged position from its stored position.
MergedDisplacement(k) == SqDist(Merged(k).position, marker_set[k].pos)

\* The displacement of marker k's current position from its stored position.
Displacement(k) == SqDist(positions[k].position, marker_set[k].pos)

MergedOverlap(i, j) ==
    /\ Merged(i) # Empty /\ Merged(j) # Empty
    /\ Merged(i).position = Merged(j).position

\* The pair the next pass of check_tracking's loop compares.
NextPair == Pairs(Len(positions))[compared + 1]

Comparing == pc = "check_tracking" /\ compared < Len(Pairs(Len(positions)))

\* The next pass finds the positions of its pair non-empty and equal.
FindsOverlap ==
    /\ Comparing
    /\ positions[NextPair[1]] # Empty /\ positions[NextPair[2]] # Empty
    /\ positions[NextPair[1]].position = positions[NextPair[2]].position

\* While check_tracking runs, a marker at its stored position stays there.
RevertedStays ==
    pc = "check_tracking" =>
        \A k \in MarkerIds :
            (positions[k] # Empty /\ positions[k].position = marker_set[k].pos)
                => (positions'[k] # Empty
                    /\ positions'[k].position = marker_set[k].pos)

\* C3 as claimed: when check_tracking has returned, of every pair i < j
\* with equal non-empty merged positions and different displacements the
\* marker with the larger displacement has its stored position and the
\* other one the contested position.
C3_LargerDisplacementLoses ==
    pc = "check_bounds" =>
        \A i \in MarkerIds, j \in MarkerIds :
            (i < j /\ MergedOverlap(i, j)
                   /\ MergedDisplacement(i) # MergedDisplacement(j)) =>
                LET l == IF MergedDisplacement(i) > MergedDisplacement(j)
                         THEN i ELSE j
                    w == IF l = i THEN j ELSE i
                IN /\ positions[l].position = marker_set[l].pos
                   /\ positions[w].position = Merged(w).position

\* C3 as amended: when check_tracking compares a pair i < j and finds the
\* current positions non-empty and equal, with different displacements from
\* the markers' stored positions, the comparison sets the position of the
\* marker with the larger displacement to its stored position, where it
\* stays until check_tracking returns, and leaves the other marker's
\* position as it is, whichever of the two has the lower index.
C3_ComparisonRevertsLargerDisplacement ==
    [][/\ RevertedStays
       /\ (FindsOverlap /\ Displacement(NextPair[1]) # Displacement(NextPair[2])) =>
            LET i == NextPair[1]
                j == NextPair[2]
                l == IF Displacement(i) > Displacement(j) THEN i ELSE j
                w == IF l = i THEN j ELSE i
            IN /\ positions'[l].position = marker_set[l].pos
               /\ positions'[l].position # positions[l].position
               /\ positions'[w] = positions[w]
               /\ \A k \in MarkerIds \ {l} : positions'[k] = positions[k]]_vars

\* C3 witness: the first comparison found markers 1 and 2 on the same
\* position; marker 1, farther from it, is back at its stored position and
\* marker 2 holds the contested position.
C3_Witness ==
    /\ pc = "check_tracking" /\ compared = 1
    /\ MergedOverlap(1, 2)
    /\ MergedDisplacement(1) > MergedDisplacement(2)
    /\ MergedDisplacement(2) > 0
    /\ positions[1].position = marker_set[1].pos
    /\ positions[2].position = Merged(2).position

\* C4 as claimed: when check_tracking has returned, of every pair i < j
\* with equal non-empty merged positions and equal displacements marker i
\* has the contested position and marker j its stored position.
C4_TieKeepsLowerIndex ==
    pc = "check_bounds" =>
        \A i \in MarkerIds, j \in MarkerIds :
            (i < j /\ MergedOverlap(i, j)
                   /\ MergedDisplacement(i) = MergedDisplacement(j)) =>
                /\ positions[i].position = Merged(i).position
                /\ positions[j].position = marker_set[j].pos

\* C4 as amended: when check_tracking compares a pair i < j and finds the
\* current positions non-empty and equal, with equal displacements from the
\* markers' stored positions, the comparison sets the position of the
\* lower-index marker i to its stored position, where it stays until
\* check_tracking returns, and leaves the higher-index marker j at the
\* contested position.
C4_TieRevertsLowerIndex ==
    [][/\ RevertedStays
       /\ (FindsOverlap /\ Displacement(NextPair[1]) = Displacement(NextPair[2])) =>
            LET i == NextPair[1]
                j == NextPair[2]
            IN /\ positions'[i].position = marker_set[i].pos
               /\ positions'[j] = positions[j]
               /\ \A k \in MarkerIds \ {i} : positions'[k] = positions[k]]_vars

\* C4 witness: the first comparison found markers 1 and 2 on the same
\* position, both equally far from their stored positions; marker 1 is back
\* at its stored position and marker 2 holds the contested position.
C4_Witness ==
    /\ pc = "check_tracking" /\ compared = 1
    /\ MergedOverlap(1, 2)
    /\ MergedDisplacement(1) = MergedDisplacement(2)
    /\ MergedDisplacement(1) > 0
    /\ positions[1].position = marker_set[1].pos
    /\ positions[2].position = Merged(2).position

\* C13: when check_tracking has returned, no two distinct markers whose
\* stored positions differ hold non-empty positions with equal coordinates,
\* whatever the number of markers and the pattern of their merged positions.
C13_NoSharedPositionAfterCheckTracking ==
    pc = "check_bounds" =>
        \A i \in MarkerIds, j \in MarkerIds :
            (i # j /\ marker_set[i].pos # marker_set[j].pos
                   /\ positions[i] # Empty /\ positions[j] # Empty) =>
                positions[i].position # positions[j].position

(***************************************************************************)
(* Properties of the commit, checked under SpecCommit.                     *)
(***************************************************************************)
\* C11: set_marker_pos called with a list of positions whose length is not
\* the number of markers raises before it writes: no marker's stored
\* position or flag changes, the marker set keeps its length, and
\* _process_function does not go on (no step follows the raise); with equal
\* lengths it does not raise.
C11_LengthMismatchAbortsBeforeAnyWrite ==
    [][/\ pc # "AssertionError"
       /\ (pc = "returned" /\ Len(positions) # Len(marker_set)) =>
             /\ pc' = "AssertionError"
             /\ marker_set' = marker_set
       /\ (pc = "returned" /\ Len(positions) = Len(marker_set)) =>
             pc' = "idle"]_vars

\* C11 witness: the call raised for a list of positions shorter than the
\* marker set whose first entry is a non-empty position different from the
\* stored position of the first marker, which is still in place.
C11_Witness ==
    /\ pc = "AssertionError"
    /\ Len(positions) > 0
    /\ Len(positions) < Len(marker_set)
    /\ positions[1] # Empty
    /\ positions[1].position # marker_set[1].pos

(***************************************************************************)
(* Properties of the camera converter, checked under SpecCamera.           *)
(***************************************************************************)
\* The call rejected its arguments: the ValueError of the validation.
Rejected == outcome.raised = "ValueError"

\* C12: get_markers_pos_in_meter rejects its arguments with a ValueError
\* when marker_pos_in_pixel and method are both None, and when method is
\* given and is not get_global_markers_pos or get_merged_global_markers_pos
\* of RgbdImages; it does not reject them when method is one of these two,
\* and when it then returns with marker_pos_in_pixel given too, the given
\* positions are the converted ones and names, occlusions and reliability
\* are those of method().
C12_ArgumentValidation ==
    outcome # Pending =>
        /\ (marker_pos_in_pixel = None /\ method = NoMethod) => Rejected
        /\ (method # NoMethod /\ method.func \notin RgbdImagesMethods)
              => Rejected
        /\ method.func \in RgbdImagesMethods =>
              /\ ~Rejected
              /\ (outcome.raised = "none" /\ marker_pos_in_pixel # None) =>
                    /\ outcome.converted = marker_pos_in_pixel
                    /\ outcome.markers_names = method_returns.markers_names
                    /\ outcome.occlusions = method_returns.occlusions
                    /\ outcome.reliability = method_returns.reliability


(***************************************************************************)
IsPrefix(a, b) ==
    /\ Len(a) <= Len(b)
    /\ \A k \in 1..Len(a) : a[k] = b[k]

\* C2: the events of every iteration of the pipelined loop occur in the
\* order send_process, load, receive_process, frames.set_images; the buffer
\* is not written, and send_process not issued again, between a
\* send_process and its receive_process.
C2_SendLoadReceivePublish ==
    [][/\ IsPrefix(events', <<"send_process", "_load_img", "receive_process",
                              "set_images">>)
       /\ frames' # frames => ~dispatched /\ ~dispatched'
       /\ sent' # sent => ~dispatched /\ dispatched']_vars

\* C2 witness: the second iteration has sent, loaded, received and
\* published, in this order.
C2_Witness ==
    /\ events = <<"send_process", "_load_img", "receive_process", "set_images">>
    /\ Len(sent) = 2
    /\ frames.index = 2
    /\ ~dispatched

\* C10: a frame whose load failed is skipped without a dispatch:
\* send_process is never issued over a buffer that has not been replaced
\* since the previous dispatch.
C10_NoDispatchOverUnreplacedFrame ==
    \A a \in 1..Len(sent), b \in 1..Len(sent) :
        a # b => sent[a] # sent[b]

\* The calls of send_process issued over version v of the frame buffer.
Dispatches(v) == Cardinality({k \in 1..Len(sent) : sent[k] = v})

\* process() has returned after a run from start_index 0 < end_index in
\* which every load succeeded and no quit key ended the loop early: every
\* iteration published its frame, and the index reached end_index.
CompleteRun ==
    /\ step = "done"
    /\ end_index > 0
    /\ index = end_index
    /\ frames.version = index

\* C14: in a run of process() with start_index < end_index, every load
\* succeeding and no quit key, the loop ends after end_index - start_index
\* iterations, end_process is called exactly once, and every frame
\* published into the buffer (the initial one, and the one loaded by each
\* iteration) has been dispatched by send_process exactly once before.
C14_EveryPublishedFrameDispatchedOnce ==
    CompleteRun =>
        /\ ended = 1
        /\ Len(sent) = end_index
        /\ \A v \in 0..frames.version : Dispatches(v) = 1

====
